---- MODULE Spec2Model ----
(***************************************************************************)
(* Model of scripts/generate_stats.py: the run of main (credentials, the   *)
(* per-bot bb queries, the spreadsheet update) and the log parser          *)
(* get_step_info.                                                          *)
(*                                                                         *)
(* Text is modelled by what the code does with it:                         *)
(*   - a bot name and a sheet name are the sequence of their words (the    *)
(*     string split on single spaces; '(' and ')' are words of their own); *)
(*   - a step name is the name of its test, split on '_', and the rest of  *)
(*     the step's title;                                                   *)
(*   - a log line is whether it holds INFO_TAG and the ':'-separated       *)
(*     columns of what follows the tag;                                    *)
(*   - a cell value is an int or a string, a string being the sequence of  *)
(*     the pieces that '\n' joins.                                         *)
(***************************************************************************)
EXTENDS Integers, Sequences, FiniteSets, TLC

\* Bounds of the model.
NumBots == 2      \* the first NumBots entries of BOT_NAMES are queried
MaxLogLen == 3    \* lines of a step log in SpecParse

----------------------------------------------------------------------------
\* Global constants of the script.

BOT_NAMES ==
  << <<"Win10", "FYI", "dEQP", "Release", "(", "NVIDIA", ")">>,
     <<"Win10", "FYI", "dEQP", "Release", "(", "Intel", "HD", "630", ")">>,
     <<"Win7", "FYI", "dEQP", "Release", "(", "AMD", ")">>,
     <<"Win7", "FYI", "x64", "dEQP", "Release", "(", "NVIDIA", ")">>,
     <<"Mac", "FYI", "dEQP", "Release", "Intel">>,
     <<"Mac", "FYI", "dEQP", "Release", "AMD">>,
     <<"Linux", "FYI", "dEQP", "Release", "(", "Intel", "HD", "630", ")">>,
     <<"Linux", "FYI", "dEQP", "Release", "(", "NVIDIA", ")">>,
     <<"Android", "FYI", "dEQP", "Release", "(", "Nexus", "5X", ")">>,
     <<"Android", "FYI", "32", "dEQP", "Vk", "Release", "(", "Pixel", "XL", ")">>,
     <<"Android", "FYI", "64", "dEQP", "Vk", "Release", "(", "Pixel", "XL", ")">>,
     <<"Android", "FYI", "32", "dEQP", "Vk", "Release", "(", "Pixel", "2", ")">>,
     <<"Android", "FYI", "64", "dEQP", "Vk", "Release", "(", "Pixel", "2", ")">> >>

\* The bots of a modelled run.
Bots == {BOT_NAMES[i] : i \in 1..NumBots}

REQUIRED_COLUMNS == <<"build_link", "time", "date", "revision", "angle_revision">>

RequiredSet == {REQUIRED_COLUMNS[i] : i \in 1..Len(REQUIRED_COLUMNS)}

\* The cell limit of get_step_info.
CellLimit == 50000

----------------------------------------------------------------------------
\* Cell values: step_info[key] and the values of a row.

IntVal(n) == [isInt |-> TRUE, n |-> n, s |-> <<>>]

StrVal(pieces) == [isInt |-> FALSE, n |-> 0, s |-> pieces]

\* The empty string ''.
Blank == StrVal(<<"">>)

\* len() of the texts of the model.
TextLen(t) ==
  CASE t = "" -> 0
    [] t = "abc" -> 3
    [] t = "de" -> 2
    [] t = "<24999 chars>" -> 24999
    [] t = "<50000 chars>" -> 50000
    [] OTHER -> 8

RECURSIVE PiecesLen(_)
PiecesLen(pieces) ==
  IF pieces = <<>> THEN 0 ELSE TextLen(Head(pieces)) + PiecesLen(Tail(pieces))

\* len() of a string value: its pieces and the '\n' between them.
StrLen(v) == PiecesLen(v.s) + (Len(v.s) - 1)

\* str.strip() on the column texts of the model.
Strip(t) ==
  CASE t = " Total" -> "Total"
    [] t = " Passed" -> "Passed"
    [] t = " Passed " -> "Passed"
    [] t = " Failed" -> "Failed"
    [] t = " Notes" -> "Notes"
    [] t = " time" -> "time"
    [] t = " abc" -> "abc"
    [] t = " de " -> "de"
    [] t = " <24999 chars>" -> "<24999 chars>"
    [] t = " <50000 chars>" -> "<50000 chars>"
    [] t = " " -> ""
    [] OTHER -> t

\* int(text): the texts int() accepts, and its value.
IntTexts == {" 0", " 1", " 2", " 3", " -1", "2 "}

IntOf(t) ==
  CASE t = " 0" -> 0
    [] t = " 1" -> 1
    [] t = " 2" -> 2
    [] t = " 3" -> 3
    [] t = " -1" -> 0 - 1
    [] t = "2 " -> 2
    [] OTHER -> 0

Put(d, k, v) == [x \in (DOMAIN d) \cup {k} |-> IF x = k THEN v ELSE d[x]]

EmptyDict == [x \in {} |-> Blank]

----------------------------------------------------------------------------
\* get_step_info: the loop over the lines of the log.

ParseStart ==
  [step_info |-> EmptyDict, append_errors |-> <<>>, warnings |-> <<>>, raised |-> FALSE]

InSeq(x, s) == \E i \in 1..Len(s) : s[i] = x

SeqSet(s) == {s[i] : i \in 1..Len(s)}

\* ProcessLine with 'step_info[key] = intVal' where the code has '+='.
ProcessLineAssign(st, line) ==
  IF st.raised \/ ~line.tag THEN st
  ELSE IF Len(line.cols) # 3
  THEN [st EXCEPT !.warnings = Append(@, "Line improperly formatted")]
  ELSE
    LET key == Strip(line.cols[2])
        raw == line.cols[3]
        has == key \in DOMAIN st.step_info
    IN IF raw \in IntTexts
       THEN IF has /\ ~st.step_info[key].isInt
            THEN [st EXCEPT !.raised = TRUE]
            ELSE [st EXCEPT !.step_info = Put(@, key, IntVal(IntOf(raw)))]
       ELSE IF ~has
            THEN [st EXCEPT !.step_info = Put(@, key, StrVal(<<Strip(raw)>>))]
            ELSE IF st.step_info[key].isInt
            THEN [st EXCEPT !.raised = TRUE]
            ELSE IF StrLen(st.step_info[key]) + 1 + TextLen(Strip(raw)) < CellLimit
            THEN [st EXCEPT !.step_info =
                    Put(@, key, StrVal(Append(st.step_info[key].s, Strip(raw))))]
            ELSE IF ~InSeq(key, st.append_errors)
            THEN [st EXCEPT !.append_errors = Append(@, key),
                            !.warnings = Append(@, "Too many characters")]
            ELSE st

\* One iteration of 'for line in out.splitlines()'.  raised: the iteration
\* raised TypeError (len() of an int, or str += int) and the loop is left.
ProcessLine(st, line) ==
  IF st.raised \/ ~line.tag THEN st
  ELSE IF Len(line.cols) # 3
  THEN [st EXCEPT !.warnings = Append(@, "Line improperly formatted")]
  ELSE
    LET key == Strip(line.cols[2])
        raw == line.cols[3]
        has == key \in DOMAIN st.step_info
    IN IF raw \in IntTexts
       THEN IF has /\ ~st.step_info[key].isInt
            THEN [st EXCEPT !.raised = TRUE]
            ELSE LET old == IF has THEN st.step_info[key].n ELSE 0
                 IN [st EXCEPT !.step_info = Put(@, key, IntVal(old + IntOf(raw)))]
       ELSE IF ~has
            THEN [st EXCEPT !.step_info = Put(@, key, StrVal(<<Strip(raw)>>))]
            ELSE IF st.step_info[key].isInt
            THEN [st EXCEPT !.raised = TRUE]
            ELSE IF StrLen(st.step_info[key]) + 1 + TextLen(Strip(raw)) < CellLimit
            THEN [st EXCEPT !.step_info =
                    Put(@, key, StrVal(Append(st.step_info[key].s, Strip(raw))))]
            ELSE IF ~InSeq(key, st.append_errors)
            THEN [st EXCEPT !.append_errors = Append(@, key),
                            !.warnings = Append(@, "Too many characters")]
            ELSE st

RECURSIVE ProcessLines(_, _)
ProcessLines(st, lines) ==
  IF lines = <<>> THEN st ELSE ProcessLines(ProcessLine(st, Head(lines)), Tail(lines))

PartialSumKeys == {"Passed", "Failed", "Skipped", "Not Supported", "Exception", "Crashed"}

\* validate_step_info raises ValueError: int() of a string statistic.
ValidateRaises(si) ==
  /\ si # EmptyDict
  /\ "Total" \in DOMAIN si
  /\ \E k \in PartialSumKeys \cap DOMAIN si : ~si[k].isInt

validate_step_info(si) == DOMAIN si # {}

\* What get_step_info gives for the output of bb log:
\* kind "none" (returns None), "raise" (an exception leaves it), "info".
StepResult(kind, d) == [kind |-> kind, d |-> d]

get_step_info(bb) ==
  IF bb.err THEN StepResult("none", EmptyDict)
  ELSE LET st == ProcessLines(ParseStart, bb.out)
       IN IF st.raised \/ ValidateRaises(st.step_info) THEN StepResult("raise", EmptyDict)
          ELSE IF validate_step_info(st.step_info) THEN StepResult("info", st.step_info)
          ELSE StepResult("none", EmptyDict)

----------------------------------------------------------------------------
\* Build info parsing: the outputs of bb the model draws from.

NoStep == [test |-> <<>>, tail |-> ""]

\* Step titles of bb get -steps.  The test name is what r'angle\w*' finds.
StepGles2D3D11 ==
  [test |-> <<"angle", "deqp", "gles2", "d3d11", "tests">>, tail |-> " on Windows-10"]

StepGles2 ==
  [test |-> <<"angle", "deqp", "gles2", "tests">>, tail |-> " on Windows-10"]

StepKhrGles2 ==
  [test |-> <<"angle", "deqp", "khr", "gles2", "tests">>, tail |-> " on Windows-10"]

StepNames == {StepGles2D3D11, StepGles2, StepKhrGles2}

\* Outputs of bb ls: stderr, and what stdout holds.
LsOutput(err, out, build, created, angle, rev) ==
  [err |-> err, out |-> out, build_name |-> build, created |-> created,
   angle_revision |-> angle, revision |-> rev]

LsOutputs ==
  { LsOutput(TRUE, "build", "chromium/ci/<bot>/26877", TRUE, TRUE, TRUE),
    LsOutput(FALSE, "empty", "", FALSE, FALSE, FALSE),
    LsOutput(FALSE, "no SUCCESS", "", FALSE, FALSE, FALSE),
    LsOutput(FALSE, "no quote", "", TRUE, FALSE, FALSE),
    LsOutput(FALSE, "build", "chromium/ci/<bot>/26877", TRUE, TRUE, TRUE),
    LsOutput(FALSE, "build", "chromium/ci/<bot>/26878", FALSE, FALSE, TRUE) }

\* BUILD_LINK_PREFIX + urllib.quote(build_name.split(BOT_NAME_PREFIX)[1])
BuildLink(build_name) ==
  CASE build_name = "chromium/ci/<bot>/26877"
         -> "https://ci.chromium.org/p/chromium/builders/ci/%3Cbot%3E/26877"
    [] build_name = "chromium/ci/<bot>/26878"
         -> "https://ci.chromium.org/p/chromium/builders/ci/%3Cbot%3E/26878"
    [] OTHER -> "https://ci.chromium.org/p/chromium/builders/ci/"

\* get_latest_success_build_info: raised, or the fields of info.
BuildInfoRaises(ls) == ls.err \/ ls.out # "build"

get_latest_success_build_info(ls) ==
  LET keys == {"build_name", "build_link"}
                \cup (IF ls.created THEN {"time", "date"} ELSE {})
                \cup (IF ls.angle_revision THEN {"angle_revision"} ELSE {})
                \cup (IF ls.revision THEN {"revision"} ELSE {})
  IN [k \in keys |->
        CASE k = "build_name" -> StrVal(<<ls.build_name>>)
          [] k = "build_link" -> StrVal(<<BuildLink(ls.build_name)>>)
          [] k = "time" -> StrVal(<<"12:26:39">>)
          [] k = "date" -> StrVal(<<"11/03/26">>)
          [] k = "angle_revision" -> StrVal(<<"8cbd321cafa92ffbf0495e6d0aeb9e1a97940fee">>)
          [] OTHER -> StrVal(<<"3b68405a27f1f9590f83ae07757589dba862f141">>)]

\* Outputs of bb get -steps: stderr, and the 'Step "angle_' titles of stdout.
GetOutputs ==
  { [err |-> TRUE, steps |-> <<StepGles2D3D11>>],
    [err |-> FALSE, steps |-> <<>>],
    [err |-> FALSE, steps |-> <<StepGles2D3D11>>],
    [err |-> FALSE, steps |-> <<StepGles2, StepKhrGles2>>],
    [err |-> FALSE, steps |-> <<StepGles2D3D11, StepGles2>>] }

get_step_names(get) == get.steps

\* Lines of a step log.
Line(tag, cols) == [tag |-> tag, cols |-> cols]

LogOutput(err, out) == [err |-> err, out |-> out]

LogInts ==
  LogOutput(FALSE, << Line(TRUE, <<"", " Total", " 3">>),
                      Line(TRUE, <<"", " Passed", " 1">>),
                      Line(FALSE, <<"[ RUN ] dEQP">>),
                      Line(TRUE, <<"", " Passed ", " 2">>) >>)

LogNotes ==
  LogOutput(FALSE, << Line(TRUE, <<"", " time", " 2">>),
                      Line(TRUE, <<"", " Notes", " abc">>),
                      Line(TRUE, <<"", " Notes", " de ">>) >>)

LogStderr == LogOutput(TRUE, << Line(TRUE, <<"", " Total", " 3">>) >>)

LogNoStats == LogOutput(FALSE, << Line(FALSE, <<"[ RUN ] dEQP">>),
                                  Line(TRUE, <<"", " Total">>) >>)

LogMixed ==
  LogOutput(FALSE, << Line(TRUE, <<"", " Failed", " 1">>),
                      Line(TRUE, <<"", " Failed", " abc">>) >>)

\* What bb log answers for each step of a build.
LogResponders ==
  { [s \in StepNames |-> IF s = StepKhrGles2 THEN LogNotes ELSE LogInts],
    [s \in StepNames |-> IF s = StepGles2 THEN LogStderr ELSE LogInts],
    [s \in StepNames |-> IF s = StepGles2D3D11 THEN LogNoStats
                         ELSE IF s = StepGles2 THEN LogNotes ELSE LogMixed] }

Call(call, bot, step, sheets) == [call |-> call, bot |-> bot, step |-> step, sheets |-> sheets]

LogEntry(level, msg) == [level |-> level, msg |-> msg]

\* The 'for step_name in info['step_names']' loop of get_bot_info, from step
\* i on: the steps parsed, the bb log calls made, the warnings logged, and
\* whether get_step_info raised.
RECURSIVE ParseSteps(_, _, _, _, _)
ParseSteps(bot, names, logs, i, acc) ==
  IF i > Len(names) THEN acc
  ELSE LET r == get_step_info(logs[names[i]])
           called == Append(acc.calls, Call("bb log", bot, names[i], <<>>))
       IN IF r.kind = "raise"
          THEN [acc EXCEPT !.calls = called, !.raised = TRUE]
          ELSE ParseSteps(bot, names, logs, i + 1,
                 [acc EXCEPT !.calls = called,
                             !.steps = Put(@, names[i], r),
                             !.log = IF r.kind = "none"
                                     THEN Append(@, LogEntry("WARNING", "step not parsed"))
                                     ELSE @])

\* get_bot_info: raised, or the bot's info; with the calls and the log.
get_bot_info(bot, ls, get, logs) ==
  LET c1 == <<Call("bb ls", bot, NoStep, <<>>)>>
      c2 == Append(c1, Call("bb get", bot, NoStep, <<>>))
      none == [fields |-> EmptyDict, step_names |-> <<>>, steps |-> [s \in {} |-> 0]]
  IN IF BuildInfoRaises(ls)
     THEN [raised |-> TRUE, info |-> none, calls |-> c1, log |-> <<>>]
     ELSE IF get.err
     THEN [raised |-> TRUE, info |-> none, calls |-> c2, log |-> <<>>]
     ELSE LET p == ParseSteps(bot, get_step_names(get), logs, 1,
                     [steps |-> [s \in {} |-> 0], calls |-> c2, log |-> <<>>,
                      raised |-> FALSE])
          IN [raised |-> p.raised,
              info |-> [fields |-> get_latest_success_build_info(ls),
                        step_names |-> get_step_names(get),
                        steps |-> p.steps],
              calls |-> p.calls, log |-> p.log]

----------------------------------------------------------------------------
\* Sheets formatting.

UnnecessaryTokens == {"FYI", "Release", "Vk", "dEQP", "(", ")"}

\* '_<token>_' in step_name: the token is neither the first nor the last.
HasInner(test, token) == \E i \in 2..(Len(test) - 1) : test[i] = token

\* '_d3d11' in step_name.
HasD3D11(test) == \E i \in 2..Len(test) : test[i] = "d3d11"

\* format_sheet_name: the words of new_step_name + ' ' + bot_name.
format_sheet_name(bot_name, step_name) ==
  LET bot == SelectSeq(bot_name, LAMBDA t : t \notin UnnecessaryTokens)
      test == step_name.test
      new_step_name ==
        (IF HasInner(test, "egl") THEN <<"EGL">> ELSE <<>>)
        \o (IF HasInner(test, "gles2") THEN <<"GLES", "2.0">> ELSE <<>>)
        \o (IF HasInner(test, "gles3") THEN <<"GLES", "3.0">> ELSE <<>>)
        \o (IF HasInner(test, "gles31") THEN <<"GLES", "3.1">> ELSE <<>>)
        \o (IF HasInner(test, "d3d9") THEN <<"D3D9">> ELSE <<>>)
        \o (IF HasD3D11(test) THEN <<"D3D11">> ELSE <<>>)
        \o (IF HasInner(test, "gl") THEN <<"Desktop", "OpenGL">> ELSE <<>>)
        \o (IF HasInner(test, "gles") THEN <<"OpenGLES">> ELSE <<>>)
        \o (IF HasInner(test, "vulkan") THEN <<"Vulkan">> ELSE <<>>)
  IN (IF new_step_name = <<>> THEN <<"">> ELSE new_step_name) \o bot

\* format_sheet_name on the bots and steps of the model, computed once.
sheet_name ==
  [b \in Bots |-> [st \in StepNames |-> format_sheet_name(b, st)]]

\* The (bot, step) pairs of info in the order the loops visit them:
\* 'for bot_name in info: for step_name in info[bot_name]['step_names']'.
RECURSIVE Pairs(_, _)
Pairs(inf, order) ==
  IF order = <<>> THEN <<>>
  ELSE [i \in 1..Len(inf[Head(order)].step_names) |->
          [bot |-> Head(order), step |-> inf[Head(order)].step_names[i]]]
       \o Pairs(inf, Tail(order))

get_sheet_names(inf, order) ==
  LET ps == Pairs(inf, order)
  IN [i \in 1..Len(ps) |-> sheet_name[ps[i].bot][ps[i].step]]

sheet_exists(spreadsheet, name) == InSeq(name, spreadsheet)

validate_sheets(spreadsheet, sheet_names) ==
  SelectSeq(sheet_names, LAMBDA n : ~sheet_exists(spreadsheet, n))

\* The orders a dict with these keys may be iterated in.
Orders(keys) ==
  {o \in [1..Cardinality(keys) -> keys] : \A i, j \in DOMAIN o : i # j => o[i] # o[j]}

----------------------------------------------------------------------------
\* update_headers and update_values.

\* An order of the keys of a step_info dict (CPython fixes one per dict).
KeyOrder == <<"Total", "Passed", "Failed", "Skipped", "Notes", "time", "date">>

keys(d) == SelectSeq(KeyOrder, LAMBDA k : k \in DOMAIN d)

\* 'for x in xs: if x not in h: h.append(x)'
RECURSIVE AppendMissing(_, _)
AppendMissing(h, xs) ==
  IF xs = <<>> THEN h
  ELSE AppendMissing(IF InSeq(Head(xs), h) THEN h ELSE Append(h, Head(xs)), Tail(xs))

\* UpdateHeadersLoop without the loop over the keys of the step.
RECURSIVE UpdateHeadersLoopRequiredOnly(_, _, _, _)
UpdateHeadersLoopRequiredOnly(inf, ps, i, acc) ==
  IF i > Len(ps) THEN acc
  ELSE LET name == sheet_name[ps[i].bot][ps[i].step]
           old == acc.headers[name]
           req == AppendMissing(old, REQUIRED_COLUMNS)
           r == inf[ps[i].bot].steps[ps[i].step]
       IN IF r.kind = "none"
          THEN [acc EXCEPT !.headers[name] = req, !.raised = TRUE]
          ELSE UpdateHeadersLoopRequiredOnly(inf, ps, i + 1,
                 [acc EXCEPT !.headers[name] = req,
                             !.data = IF req # old THEN Append(@, name) ELSE @])

\* The loops of update_headers from pair i on.  acc: the headers dict, the
\* sheets whose headers are stale (one entry of data each), and whether
\* info[bot_name][step_name].keys() raised AttributeError on None.
RECURSIVE UpdateHeadersLoop(_, _, _, _)
UpdateHeadersLoop(inf, ps, i, acc) ==
  IF i > Len(ps) THEN acc
  ELSE LET name == sheet_name[ps[i].bot][ps[i].step]
           old == acc.headers[name]
           req == AppendMissing(old, REQUIRED_COLUMNS)
           r == inf[ps[i].bot].steps[ps[i].step]
       IN IF r.kind = "none"
          THEN [acc EXCEPT !.headers[name] = req, !.raised = TRUE]
          ELSE LET new == AppendMissing(req, keys(r.d))
               IN UpdateHeadersLoop(inf, ps, i + 1,
                    [acc EXCEPT !.headers[name] = new,
                                !.data = IF new # old THEN Append(@, name) ELSE @])

\* 'key in info[bot_name]': the build fields, 'step_names', and the steps.
\* No header of the model is the title of a step.
InBotInfo(bi, key) == key \in (DOMAIN bi.fields) \cup {"step_names"}

\* row_value with the two tests of the if in the other order.
row_value_StatisticFirst(bi, step_info, key) ==
  IF key \in DOMAIN step_info THEN step_info[key]
  ELSE IF InBotInfo(bi, key) /\ key \in RequiredSet THEN bi.fields[key]
  ELSE Blank

\* The value update_values puts under one header key.
row_value(bi, step_info, key) ==
  IF InBotInfo(bi, key) /\ key \in RequiredSet THEN bi.fields[key]
  ELSE IF key \in DOMAIN step_info THEN step_info[key]
  ELSE Blank

\* The row update_values builds for a pair.
row_values(bi, step_info, header) ==
  [i \in 1..Len(header) |-> row_value(bi, step_info, header[i])]

\* Building the row raises TypeError: 'key in None'.
RowRaises(bi, r, header) ==
  /\ r.kind = "none"
  /\ \E i \in 1..Len(header) : ~(InBotInfo(bi, header[i]) /\ header[i] \in RequiredSet)

----------------------------------------------------------------------------
\* The state of a run.

VARIABLES
  pc,            \* where main is
  exit_status,   \* "running", "zero", "nonzero"
  bot_i,         \* index in BOT_NAMES of the next bot of main's loop
  info,          \* main's info dict
  log,           \* what LOGGER wrote: errors, warnings, the success message
  calls,         \* the bb commands and Sheets API requests made, in order
  remote,        \* the spreadsheet: its sheets' titles and first rows
  rows,          \* the rows appended to the spreadsheet
  spreadsheet,   \* update_spreadsheet: the titles get_spreadsheet returned
  pairs,         \* the (bot, step) pairs 'for bot_name in info: for step_name in
                 \* info[bot_name]['step_names']' visits, in order
  sheet_names,   \* update_spreadsheet: sheet_names
  new_sheets,    \* update_spreadsheet: new_sheets
  headers,       \* update_spreadsheet: headers
  vi,            \* update_values: index of the next pair
  raised_bots,   \* history: the bots whose get_bot_info raised
  bb_log,        \* get_step_info: the output of bb log
  ln,            \* get_step_info: lines of the log the loop has done
  pst,           \* get_step_info: step_info, append_errors, warnings
  ppc            \* get_step_info: "idle", "loop", "none", "raise", "info"

mainvars == <<pc, exit_status, bot_i, info, log, calls, remote, rows, spreadsheet,
              pairs, sheet_names, new_sheets, headers, vi, raised_bots>>

parsevars == <<bb_log, ln, pst, ppc>>

vars == <<mainvars, parsevars>>

Sheet1 == <<"Sheet1">>

\* Headers a sheet may hold before the run.
HeaderOld == <<"date", "Total", "Skipped">>

HeaderFull == REQUIRED_COLUMNS \o <<"Total", "Passed", "Notes", "time">>

\* A spreadsheet: the titles of its sheets and the first row of each.
Remote(titles, header) ==
  [titles |-> titles, header |-> [t \in SeqSet(titles) |-> header[t]]]

\* The spreadsheets a run may find: a new one, and one that has a sheet of
\* the first bot with older headers and a sheet of the second bot with all
\* the headers.
InitRemotes ==
  { Remote(<<Sheet1>>, [t \in {Sheet1} |-> <<>>]),
    Remote(<<Sheet1, format_sheet_name(BOT_NAMES[1], StepGles2),
             format_sheet_name(BOT_NAMES[2], StepGles2D3D11)>>,
           [t \in {Sheet1, format_sheet_name(BOT_NAMES[1], StepGles2),
                   format_sheet_name(BOT_NAMES[2], StepGles2D3D11)} |->
              IF t = Sheet1 THEN <<>>
              ELSE IF t = format_sheet_name(BOT_NAMES[1], StepGles2) THEN HeaderOld
              ELSE HeaderFull]) }

NoHeaders == [t \in {} |-> <<>>]

NoInfo == [b \in {} |-> 0]

Init ==
  /\ pc = "start"
  /\ exit_status = "running"
  /\ bot_i = 1
  /\ info = NoInfo
  /\ log = <<>>
  /\ calls = <<>>
  /\ remote \in InitRemotes
  /\ rows = <<>>
  /\ spreadsheet = <<>>
  /\ pairs = <<>>
  /\ sheet_names = <<>>
  /\ new_sheets = <<>>
  /\ headers = NoHeaders
  /\ vi = 1
  /\ raised_bots = {}
  /\ bb_log = LogOutput(FALSE, <<>>)
  /\ ln = 0
  /\ pst = ParseStart
  /\ ppc = "idle"

\* exit(1) / quit(1) after LOGGER.error.
Fatal(msg) ==
  /\ pc' = "done"
  /\ exit_status' = "nonzero"
  /\ log' = Append(log, LogEntry("ERROR", msg))

----------------------------------------------------------------------------
\* main.

\* GetSheetsService without the exit(1) of line 584.
GetSheetsServiceNoExit ==
  /\ pc = "start"
  /\ \E ok \in BOOLEAN :
       /\ pc' = "fetch"
       /\ log' = IF ok THEN log ELSE Append(log, LogEntry("ERROR", "get_sheets_service"))
       /\ UNCHANGED exit_status
  /\ UNCHANGED <<bot_i, info, calls, remote, rows, spreadsheet, pairs, sheet_names,
                 new_sheets, headers, vi, raised_bots, parsevars>>

\* main, lines 575-584: get_sheets_service returns or raises.
GetSheetsService ==
  /\ pc = "start"
  /\ \E ok \in BOOLEAN :
       IF ok THEN /\ pc' = "fetch"
                  /\ UNCHANGED <<exit_status, log>>
       ELSE Fatal("get_sheets_service")
  /\ UNCHANGED <<bot_i, info, calls, remote, rows, spreadsheet, pairs, sheet_names,
                 new_sheets, headers, vi, raised_bots, parsevars>>

\* FetchBot without the try of line 590: an exception of get_bot_info ends
\* the run.
FetchBotUncaught ==
  /\ pc = "fetch"
  /\ bot_i <= NumBots
  /\ \E ls \in LsOutputs, get \in GetOutputs, logs \in LogResponders :
       LET bot == BOT_NAMES[bot_i]
           r == get_bot_info(bot, ls, get, logs)
       IN /\ calls' = calls \o r.calls
          /\ raised_bots' = IF r.raised THEN raised_bots \cup {bot} ELSE raised_bots
          /\ IF r.raised
             THEN /\ info' = info
                  /\ log' = log \o r.log \o <<LogEntry("ERROR", "get_bot_info")>>
                  /\ pc' = "done"
                  /\ exit_status' = "nonzero"
             ELSE /\ info' = [b \in (DOMAIN info) \cup {bot} |->
                                IF b = bot THEN r.info ELSE info[b]]
                  /\ log' = log \o r.log
                  /\ UNCHANGED <<pc, exit_status>>
  /\ bot_i' = bot_i + 1
  /\ UNCHANGED <<remote, rows, spreadsheet, pairs, sheet_names,
                 new_sheets, headers, vi, parsevars>>

\* One iteration of 'for bot_name in BOT_NAMES', lines 588-593.
FetchBot ==
  /\ pc = "fetch"
  /\ bot_i <= NumBots
  /\ \E ls \in LsOutputs, get \in GetOutputs, logs \in LogResponders :
       LET bot == BOT_NAMES[bot_i]
           r == get_bot_info(bot, ls, get, logs)
       IN /\ calls' = calls \o r.calls
          /\ raised_bots' = IF r.raised THEN raised_bots \cup {bot} ELSE raised_bots
          /\ IF r.raised
             THEN /\ info' = info
                  /\ log' = log \o r.log \o <<LogEntry("ERROR", "get_bot_info")>>
             ELSE /\ info' = [b \in (DOMAIN info) \cup {bot} |->
                                IF b = bot THEN r.info ELSE info[b]]
                  /\ log' = log \o r.log
  /\ bot_i' = bot_i + 1
  /\ UNCHANGED <<pc, exit_status, remote, rows, spreadsheet, pairs, sheet_names,
                 new_sheets, headers, vi, parsevars>>

\* update_spreadsheet, lines 477-481: get_spreadsheet, get_sheet_names and
\* validate_sheets.
OpenSpreadsheet ==
  /\ pc = "fetch"
  /\ bot_i > NumBots
  /\ calls' = Append(calls, Call("spreadsheets.get", <<>>, NoStep, <<>>))
  /\ \E ok \in BOOLEAN :
       IF ok
       THEN \E o \in Orders(DOMAIN info) :
              /\ pairs' = Pairs(info, o)
              /\ spreadsheet' = remote.titles
              /\ sheet_names' = get_sheet_names(info, o)
              /\ new_sheets' = validate_sheets(remote.titles, get_sheet_names(info, o))
              /\ pc' = "create"
              /\ UNCHANGED <<exit_status, log>>
       ELSE /\ Fatal("update_spreadsheet")
            /\ UNCHANGED <<pairs, spreadsheet, sheet_names, new_sheets>>
  /\ UNCHANGED <<bot_i, info, remote, rows, headers, vi, raised_bots, parsevars>>

\* What spreadsheets.batchUpdate does with addSheet requests.
AddSheets(rem, titles) ==
  [titles |-> rem.titles \o titles,
   header |-> [t \in (DOMAIN rem.header) \cup {titles[i] : i \in 1..Len(titles)} |->
                 IF t \in DOMAIN rem.header THEN rem.header[t] ELSE <<>>]]

\* update_spreadsheet, lines 482-484: create_sheets when new_sheets is not empty.
CreateSheets ==
  /\ pc = "create"
  /\ IF new_sheets = <<>>
     THEN /\ pc' = "get_headers"
          /\ UNCHANGED <<calls, remote, exit_status, log>>
     ELSE /\ calls' = Append(calls, Call("spreadsheets.batchUpdate", <<>>, NoStep, new_sheets))
          /\ \E ok \in BOOLEAN :
               IF ok THEN /\ remote' = AddSheets(remote, new_sheets)
                          /\ pc' = "get_headers"
                          /\ UNCHANGED <<exit_status, log>>
               ELSE /\ Fatal("update_spreadsheet")
                    /\ UNCHANGED remote
  /\ UNCHANGED <<bot_i, info, rows, spreadsheet, pairs, sheet_names, new_sheets,
                 headers, vi, raised_bots, parsevars>>

\* GetHeaders followed by update_values, update_headers left out.
GetHeadersThenValues ==
  /\ pc = "get_headers"
  /\ calls' = Append(calls, Call("spreadsheets.values.batchGet", <<>>, NoStep, sheet_names))
  /\ \E ok \in BOOLEAN :
       IF ok /\ \A i \in 1..Len(sheet_names) : sheet_names[i] \in DOMAIN remote.header
       THEN /\ headers' = [t \in {sheet_names[i] : i \in 1..Len(sheet_names)} |->
                             remote.header[t]]
            /\ pc' = "update_values"
            /\ UNCHANGED <<exit_status, log>>
       ELSE /\ Fatal("update_spreadsheet")
            /\ UNCHANGED headers
  /\ UNCHANGED <<bot_i, info, remote, rows, spreadsheet, pairs, sheet_names, new_sheets,
                 vi, raised_bots, parsevars>>

\* update_spreadsheet, line 486: get_headers.  The request fails when a range
\* names a sheet the spreadsheet does not have.
GetHeaders ==
  /\ pc = "get_headers"
  /\ calls' = Append(calls, Call("spreadsheets.values.batchGet", <<>>, NoStep, sheet_names))
  /\ \E ok \in BOOLEAN :
       IF ok /\ \A i \in 1..Len(sheet_names) : sheet_names[i] \in DOMAIN remote.header
       THEN /\ headers' = [t \in {sheet_names[i] : i \in 1..Len(sheet_names)} |->
                             remote.header[t]]
            /\ pc' = "update_headers"
            /\ UNCHANGED <<exit_status, log>>
       ELSE /\ Fatal("update_spreadsheet")
            /\ UNCHANGED headers
  /\ UNCHANGED <<bot_i, info, remote, rows, spreadsheet, pairs, sheet_names, new_sheets,
                 vi, raised_bots, parsevars>>

\* What spreadsheets.values.batchUpdate does with the header ranges when it
\* succeeds (it fails, for one, when a row is wider than the range A1:Z).
WriteHeaders(rem, data, hs) ==
  [rem EXCEPT !.header = [t \in DOMAIN rem.header |->
                            IF InSeq(t, data) THEN hs[t] ELSE rem.header[t]]]

\* UpdateHeaders with a failed batch_update_values logged and skipped, as
\* update_values does for append_values.
UpdateHeadersWriteSkipped ==
  /\ pc = "update_headers"
  /\ LET r == UpdateHeadersLoop(info, pairs, 1,
                [headers |-> headers, data |-> <<>>, raised |-> FALSE])
     IN /\ headers' = r.headers
        /\ IF r.raised
           THEN /\ Fatal("update_spreadsheet: 'NoneType' object has no attribute 'keys'")
                /\ UNCHANGED <<calls, remote>>
           ELSE IF r.data = <<>>
           THEN /\ pc' = "update_values"
                /\ UNCHANGED <<calls, remote, exit_status, log>>
           ELSE /\ calls' = Append(calls, Call("spreadsheets.values.batchUpdate", <<>>,
                                               NoStep, r.data))
                /\ pc' = "update_values"
                /\ UNCHANGED exit_status
                /\ \E ok \in BOOLEAN :
                     IF ok THEN /\ remote' = WriteHeaders(remote, r.data, r.headers)
                                /\ UNCHANGED log
                     ELSE /\ log' = Append(log, LogEntry("ERROR", "update_spreadsheet"))
                          /\ UNCHANGED remote
  /\ vi' = 1
  /\ UNCHANGED <<bot_i, info, rows, spreadsheet, pairs, sheet_names, new_sheets, raised_bots,
                 parsevars>>

\* update_spreadsheet, line 487: update_headers.
UpdateHeaders ==
  /\ pc = "update_headers"
  /\ LET r == UpdateHeadersLoop(info, pairs, 1,
                [headers |-> headers, data |-> <<>>, raised |-> FALSE])
     IN /\ headers' = r.headers
        /\ IF r.raised
           THEN /\ Fatal("update_spreadsheet: 'NoneType' object has no attribute 'keys'")
                /\ UNCHANGED <<calls, remote>>
           ELSE IF r.data = <<>>
           THEN /\ pc' = "update_values"
                /\ UNCHANGED <<calls, remote, exit_status, log>>
           ELSE /\ calls' = Append(calls, Call("spreadsheets.values.batchUpdate", <<>>,
                                               NoStep, r.data))
                /\ \E ok \in BOOLEAN :
                     IF ok THEN /\ remote' = WriteHeaders(remote, r.data, r.headers)
                                /\ pc' = "update_values"
                                /\ UNCHANGED <<exit_status, log>>
                     ELSE /\ Fatal("update_spreadsheet")
                          /\ UNCHANGED remote
  /\ vi' = 1
  /\ UNCHANGED <<bot_i, info, rows, spreadsheet, pairs, sheet_names, new_sheets, raised_bots,
                 parsevars>>

\* AppendRow without the try of line 469: a failed append ends the run.
AppendRowUncaught ==
  /\ pc = "update_values"
  /\ vi <= Len(pairs)
  /\ LET p == pairs[vi]
         name == sheet_name[p.bot][p.step]
         r == info[p.bot].steps[p.step]
     IN /\ calls' = Append(calls, Call("spreadsheets.values.append", p.bot, p.step,
                                       <<name>>))
        /\ vi' = vi + 1
        /\ \E ok \in BOOLEAN :
             IF ok /\ name \in DOMAIN remote.header
             THEN /\ rows' = Append(rows,
                               [sheet |-> name, bot |-> p.bot, step |-> p.step,
                                values |-> row_values(info[p.bot], r.d, headers[name])])
                  /\ UNCHANGED <<pc, exit_status, log>>
             ELSE /\ Fatal("update_spreadsheet")
                  /\ UNCHANGED rows
  /\ UNCHANGED <<bot_i, info, remote, spreadsheet, pairs, sheet_names, new_sheets,
                 headers, raised_bots, parsevars>>

\* One iteration of the loops of update_values, lines 455-472.
AppendRow ==
  /\ pc = "update_values"
  /\ vi <= Len(pairs)
  /\ LET p == pairs[vi]
         name == sheet_name[p.bot][p.step]
         r == info[p.bot].steps[p.step]
     IN IF RowRaises(info[p.bot], r, headers[name])
        THEN /\ Fatal("update_spreadsheet: argument of type 'NoneType' is not iterable")
             /\ UNCHANGED <<calls, rows, vi>>
        ELSE /\ calls' = Append(calls, Call("spreadsheets.values.append", p.bot, p.step,
                                            <<name>>))
             /\ vi' = vi + 1
             /\ \E ok \in BOOLEAN :
                  IF ok /\ name \in DOMAIN remote.header
                  THEN /\ rows' = Append(rows,
                                    [sheet |-> name, bot |-> p.bot, step |-> p.step,
                                     values |-> row_values(info[p.bot], r.d, headers[name])])
                       /\ UNCHANGED log
                  ELSE /\ log' = Append(log, LogEntry("WARNING", "append_values"))
                       /\ UNCHANGED rows
             /\ UNCHANGED <<pc, exit_status>>
  /\ UNCHANGED <<bot_i, info, remote, spreadsheet, pairs, sheet_names, new_sheets,
                 headers, raised_bots, parsevars>>

\* main, lines 602-603: update_spreadsheet returned.
Finish ==
  /\ pc = "update_values"
  /\ vi > Len(pairs)
  /\ pc' = "done"
  /\ exit_status' = "zero"
  /\ log' = Append(log, LogEntry("INFO", "Info was successfully parsed to sheet"))
  /\ UNCHANGED <<bot_i, info, calls, remote, rows, spreadsheet, pairs, sheet_names,
                 new_sheets, headers, vi, raised_bots, parsevars>>

Next ==
  \/ GetSheetsService
  \/ FetchBot
  \/ OpenSpreadsheet
  \/ CreateSheets
  \/ GetHeaders
  \/ UpdateHeaders
  \/ AppendRow
  \/ Finish

Spec == Init /\ [][Next]_vars

----------------------------------------------------------------------------
\* get_step_info, one line of the log at a time.

\* Lines a step log is made of.
LineSet ==
  { Line(FALSE, <<"[ RUN ] dEQP">>),
    Line(FALSE, <<"RESULT", " Total", " 3">>),
    Line(TRUE, <<"", " Total", " 3">>),
    Line(TRUE, <<"", " Passed", " 1">>),
    Line(TRUE, <<"", " Passed ", " 2">>),
    Line(TRUE, <<"", " Passed", " -1">>),
    Line(TRUE, <<"", " Passed", " abc">>),
    Line(TRUE, <<"", " Notes", " abc">>),
    Line(TRUE, <<"", " Notes", " <24999 chars>">>),
    Line(TRUE, <<"", " Notes", " <50000 chars>">>),
    Line(TRUE, <<"", " Total">>),
    Line(TRUE, <<"", " Total", " 3", " 1">>) }

Logs == UNION {[1..n -> LineSet] : n \in 0..MaxLogLen}

InitParse ==
  /\ pc = "start"
  /\ exit_status = "running"
  /\ bot_i = 1
  /\ info = NoInfo
  /\ log = <<>>
  /\ calls = <<>>
  /\ remote = Remote(<<Sheet1>>, [t \in {Sheet1} |-> <<>>])
  /\ rows = <<>>
  /\ spreadsheet = <<>>
  /\ pairs = <<>>
  /\ sheet_names = <<>>
  /\ new_sheets = <<>>
  /\ headers = NoHeaders
  /\ vi = 1
  /\ raised_bots = {}
  /\ bb_log \in {LogOutput(FALSE, out) : out \in Logs} \cup {LogStderr}
  /\ ln = 0
  /\ pst = ParseStart
  /\ ppc = "loop"

\* Lines 198-201: bb log wrote to stderr.
ParseStderr ==
  /\ ppc = "loop"
  /\ bb_log.err
  /\ ppc' = "none"
  /\ pst' = [pst EXCEPT !.warnings = Append(@, "Unexpected error from bb log")]
  /\ UNCHANGED <<bb_log, ln, mainvars>>

\* One iteration of the loop of lines 215-250.
ParseLine ==
  /\ ppc = "loop"
  /\ ~bb_log.err
  /\ ln < Len(bb_log.out)
  /\ pst' = ProcessLine(pst, bb_log.out[ln + 1])
  /\ ln' = ln + 1
  /\ ppc' = IF pst'.raised THEN "raise" ELSE "loop"
  /\ UNCHANGED <<bb_log, mainvars>>

\* Lines 252-254: validate_step_info and the return.
ParseReturn ==
  /\ ppc = "loop"
  /\ ~bb_log.err
  /\ ln = Len(bb_log.out)
  /\ ppc' = get_step_info(bb_log).kind
  /\ UNCHANGED <<bb_log, ln, pst, mainvars>>

NextParse ==
  \/ ParseStderr
  \/ ParseLine
  \/ ParseReturn

SpecParse == InitParse /\ [][NextParse]_vars

----------------------------------------------------------------------------
\* Properties of a run.

Count(x, s) == Cardinality({i \in 1..Len(s) : s[i] = x})

CallsOf(kind) == SelectSeq(calls, LAMBDA c : c.call = kind)

Called(kind) == \E i \in 1..Len(calls) : calls[i].call = kind

IsBb(c) == c.call \in {"bb ls", "bb get", "bb log"}

BotIndex(b) == CHOOSE i \in 1..Len(BOT_NAMES) : BOT_NAMES[i] = b

FetchedBot(b) == InSeq(Call("bb ls", b, NoStep, <<>>), calls)

SheetOf(p) == sheet_name[p.bot][p.step]

StepOf(p) == info[p.bot].steps[p.step]

SuccessLogged == InSeq(LogEntry("INFO", "Info was successfully parsed to sheet"), log)

CredentialsFailed == InSeq(LogEntry("ERROR", "get_sheets_service"), log)

ApiRequestFailed == InSeq(LogEntry("ERROR", "update_spreadsheet"), log)

UpdateSpreadsheetRaised ==
  \E i \in 1..Len(log) :
    /\ log[i].level = "ERROR"
    /\ log[i].msg \in {"update_spreadsheet",
                       "update_spreadsheet: 'NoneType' object has no attribute 'keys'",
                       "update_spreadsheet: argument of type 'NoneType' is not iterable"}

\* C1: when get_bot_info raises for a bot the error is logged and the bot
\* has no entry in info, and the loop goes on: every bot of BOT_NAMES is
\* queried before update_spreadsheet is called, and every bot whose fetch
\* succeeded is in info then.  A run that queried a bot ends only after
\* update_spreadsheet was called.
C1_BotFailureSkipped ==
  /\ \A i \in 1..NumBots :
       /\ BOT_NAMES[i] \in raised_bots => BOT_NAMES[i] \notin DOMAIN info
       /\ i < bot_i => FetchedBot(BOT_NAMES[i])
  /\ Count(LogEntry("ERROR", "get_bot_info"), log) = Cardinality(raised_bots)
  /\ Called("spreadsheets.get") =>
       \A i \in 1..NumBots :
         /\ FetchedBot(BOT_NAMES[i])
         /\ BOT_NAMES[i] \notin raised_bots => BOT_NAMES[i] \in DOMAIN info
  /\ (pc = "done" /\ calls # <<>>) => Called("spreadsheets.get")

\* C1: the first bot's fetch raised, the second bot is in info, and
\* update_spreadsheet was called.
C1_Witness ==
  /\ Called("spreadsheets.get")
  /\ BOT_NAMES[1] \in raised_bots
  /\ BOT_NAMES[2] \in DOMAIN info

\* C2: every failed append is logged as a warning and skipped: the loop of
\* update_values attempts one append per (bot, step) pair of info, in
\* order, whatever failed before, and once an append was attempted the run
\* never exits non-zero.
C2_AppendFailureSkipped ==
  /\ Count(LogEntry("WARNING", "append_values"), log)
       = Len(CallsOf("spreadsheets.values.append")) - Len(rows)
  /\ Called("spreadsheets.values.append") => exit_status # "nonzero"
  /\ pc = "update_values" => Len(CallsOf("spreadsheets.values.append")) = vi - 1
  /\ (pc = "done" /\ Called("spreadsheets.values.append")) =>
       LET ac == CallsOf("spreadsheets.values.append")
       IN /\ exit_status = "zero"
          /\ Len(ac) = Len(pairs)
          /\ \A k \in 1..Len(ac) :
               ac[k].bot = pairs[k].bot /\ ac[k].step = pairs[k].step

\* C2: the append for the first pair failed, the append for the second
\* pair was made and succeeded, and the run exited with status zero.
C2_Witness ==
  /\ pc = "done"
  /\ exit_status = "zero"
  /\ Len(CallsOf("spreadsheets.values.append")) = 2
  /\ InSeq(LogEntry("WARNING", "append_values"), log)
  /\ Len(rows) = 1
  /\ rows[1].bot = pairs[2].bot
  /\ rows[1].step = pairs[2].step

HasNoneStep ==
  \E b \in DOMAIN info : \E s \in DOMAIN info[b].steps : info[b].steps[s].kind = "none"

\* C3: a step that could not be parsed (get_step_info returned None) is
\* skipped: unless credentials or a Sheets request failed, the run ends with
\* status zero and an append was attempted for every parsed step.
C3_UnparsedStepSkipped ==
  (pc = "done" /\ HasNoneStep /\ ~CredentialsFailed /\ ~ApiRequestFailed) =>
    /\ exit_status = "zero"
    /\ \A k \in 1..Len(pairs) :
         StepOf(pairs[k]).kind = "info" =>
           \E i \in 1..Len(calls) :
             /\ calls[i].call = "spreadsheets.values.append"
             /\ calls[i].bot = pairs[k].bot
             /\ calls[i].step = pairs[k].step

\* C4: when get_sheets_service fails the run ends with a non-zero status
\* and has made no bb query and no Sheets request.
C4_NoCredentialsNoCalls ==
  CredentialsFailed =>
    /\ pc = "done"
    /\ exit_status = "nonzero"
    /\ calls = <<>>
    /\ rows = <<>>
    /\ info = NoInfo

\* C4: a run whose get_sheets_service failed.
C4_Witness == CredentialsFailed /\ pc = "done"

\* C5: when update_spreadsheet raises the run ends with a non-zero status
\* and the success message is not logged; the success message is logged
\* only after update_spreadsheet went through all its steps and returned.
C5_FatalUpdateFailure ==
  /\ UpdateSpreadsheetRaised =>
       pc = "done" /\ exit_status = "nonzero" /\ ~SuccessLogged
  /\ SuccessLogged =>
       /\ pc = "done"
       /\ exit_status = "zero"
       /\ ~UpdateSpreadsheetRaised
       /\ Called("spreadsheets.get")
       /\ Called("spreadsheets.values.batchGet")
       /\ Len(CallsOf("spreadsheets.values.append")) = Len(pairs)

\* C5: writing the headers failed, after the spreadsheet was opened and
\* its headers were read.
C5_Witness ==
  /\ pc = "done"
  /\ UpdateSpreadsheetRaised
  /\ Called("spreadsheets.values.batchUpdate")

\* update_headers returned: update_values runs or has run.
HeadersReturned == pc = "update_values" \/ (pc = "done" /\ SuccessLogged)

\* C6: once update_headers has returned, and so whenever update_values
\* builds a row, the header list of the sheet of every (bot, step) pair of
\* info holds every column of REQUIRED_COLUMNS and every key of the step's
\* statistics, and it is the first row of that sheet.
C6_HeadersSuperset ==
  HeadersReturned =>
    \A k \in 1..Len(pairs) :
      LET name == SheetOf(pairs[k])
      IN /\ name \in DOMAIN headers
         /\ RequiredSet \subseteq SeqSet(headers[name])
         /\ DOMAIN StepOf(pairs[k]).d \subseteq SeqSet(headers[name])
         /\ name \in DOMAIN remote.header
         /\ remote.header[name] = headers[name]

\* C6: update_values is at a pair whose statistics hold the key Notes and
\* whose sheet had other headers before the run.
C6_Witness ==
  /\ pc = "update_values"
  /\ vi <= Len(pairs)
  /\ "Notes" \in DOMAIN StepOf(pairs[vi]).d
  /\ SubSeq(headers[SheetOf(pairs[vi])], 1, Len(HeaderOld)) = HeaderOld

\* C7: validate_sheets returns the sheet names of info the spreadsheet
\* does not have, create_sheets is called only with a non-empty list and
\* requests each missing sheet once and no existing sheet, and after the
\* creation step every sheet name of get_sheet_names is the title of
\* exactly one sheet.
C7_EachMissingSheetCreatedOnce ==
  /\ pc = "create" =>
       /\ SeqSet(new_sheets) = SeqSet(sheet_names) \ SeqSet(spreadsheet)
       /\ \A n \in SeqSet(new_sheets) : Count(n, new_sheets) = 1
  /\ \A i \in 1..Len(calls) :
       calls[i].call = "spreadsheets.batchUpdate" =>
         /\ calls[i].sheets # <<>>
         /\ \A n \in SeqSet(calls[i].sheets) :
              Count(n, calls[i].sheets) = 1 /\ n \notin SeqSet(spreadsheet)
  /\ pc \in {"get_headers", "update_headers", "update_values"} =>
       \A n \in SeqSet(sheet_names) : Count(n, remote.titles) = 1

Rank(c) ==
  CASE c.call = "bb ls" -> 1
    [] c.call = "bb get" -> 2
    [] c.call = "bb log" -> 3
    [] c.call = "spreadsheets.get" -> 4
    [] c.call = "spreadsheets.batchUpdate" -> 5
    [] c.call = "spreadsheets.values.batchGet" -> 6
    [] c.call = "spreadsheets.values.batchUpdate" -> 7
    [] OTHER -> 8

\* C8: the calls of a run follow the pipeline and none is repeated: the
\* bots are queried in the order of BOT_NAMES, each with bb ls, then bb get,
\* then one bb log per step; every bb call comes before the first Sheets
\* request, made when all bots were queried; the Sheets requests are get,
\* batchUpdate (sheets), values.batchGet, values.batchUpdate, then one
\* append per pair; and every sheet a row was appended to exists with the
\* up-to-date headers as its first row.
C8_LinearPipeline ==
  /\ \A i \in 1..(Len(calls) - 1) :
       LET a == calls[i]
           b == calls[i + 1]
       IN IF IsBb(a) /\ IsBb(b)
          THEN \/ BotIndex(a.bot) < BotIndex(b.bot) /\ Rank(b) = 1
               \/ a.bot = b.bot /\ Rank(b) = Rank(a) + 1
               \/ a.bot = b.bot /\ Rank(a) = 3 /\ Rank(b) = 3
          ELSE \/ Rank(a) < Rank(b)
               \/ Rank(a) = 8 /\ Rank(b) = 8
  /\ \A k \in {3, 8} :
       LET same == {i \in 1..Len(calls) : Rank(calls[i]) = k}
       IN \A i, j \in same :
            (i < j /\ calls[i].bot = calls[j].bot) => calls[i].step # calls[j].step
  /\ (\E i \in 1..Len(calls) : ~IsBb(calls[i])) => bot_i > NumBots
  /\ \A i \in 1..Len(calls) :
       calls[i].call = "spreadsheets.values.append" =>
         LET name == calls[i].sheets[1]
         IN /\ name = sheet_name[calls[i].bot][calls[i].step]
            /\ InSeq(name, remote.titles)
            /\ remote.header[name] = headers[name]
            /\ RequiredSet \subseteq SeqSet(remote.header[name])
            /\ DOMAIN info[calls[i].bot].steps[calls[i].step].d
                 \subseteq SeqSet(remote.header[name])

\* C8: a run that went through every stage: both bots' step logs were
\* read, sheets were created, headers were written and two rows appended.
C8_Witness ==
  /\ pc = "done"
  /\ exit_status = "zero"
  /\ \A i \in 1..NumBots :
       \E j \in 1..Len(calls) : calls[j].call = "bb log" /\ calls[j].bot = BOT_NAMES[i]
  /\ Called("spreadsheets.batchUpdate")
  /\ Called("spreadsheets.values.batchUpdate")
  /\ Len(rows) >= 2

\* C9: every appended row follows the headers of its sheet: one value per
\* header, at position i the bot's value when header i is a required column
\* the bot's info has, else the step's statistic under header i when there
\* is one, else the empty string.
C9_RowMatchesHeaders ==
  \A k \in 1..Len(rows) :
    LET h == headers[rows[k].sheet]
        bi == info[rows[k].bot]
        d == bi.steps[rows[k].step].d
    IN /\ rows[k].sheet = sheet_name[rows[k].bot][rows[k].step]
       /\ Len(rows[k].values) = Len(h)
       /\ Len(rows[k].values) = Len(remote.header[rows[k].sheet])
       /\ \A i \in 1..Len(h) :
            rows[k].values[i] =
              IF h[i] \in RequiredSet /\ h[i] \in DOMAIN bi.fields THEN bi.fields[h[i]]
              ELSE IF h[i] \in DOMAIN d THEN d[h[i]]
              ELSE Blank

\* C9: a row whose step has a statistic named time: the column time holds
\* the bot's time, another column a statistic, another the empty string.
C9_Witness ==
  \E k \in 1..Len(rows) :
    LET h == headers[rows[k].sheet]
        bi == info[rows[k].bot]
        d == bi.steps[rows[k].step].d
    IN /\ "time" \in DOMAIN d
       /\ "time" \in DOMAIN bi.fields
       /\ \E i \in 1..Len(h) : h[i] = "time" /\ rows[k].values[i] = bi.fields["time"]
       /\ \E i \in 1..Len(h) : h[i] = "Notes" /\ rows[k].values[i] = d["Notes"]
       /\ \E i \in 1..Len(h) : rows[k].values[i] = Blank

----------------------------------------------------------------------------
\* Properties of get_step_info.

\* The lines the loop has done.
DoneLines == SubSeq(bb_log.out, 1, ln)

WellFormed(line) == line.tag /\ Len(line.cols) = 3

HasKey(line, key) == WellFormed(line) /\ Strip(line.cols[2]) = key

ParseKeys == {"Total", "Passed", "Failed", "Notes", "time"}

RECURSIVE SumOf(_, _)
SumOf(key, lines) ==
  IF lines = <<>> THEN 0
  ELSE (IF HasKey(Head(lines), key) THEN IntOf(Head(lines).cols[3]) ELSE 0)
       + SumOf(key, Tail(lines))

AppendsTo(st, line) ==
  /\ ~st.raised
  /\ WellFormed(line)
  /\ line.cols[3] \notin IntTexts
  /\ Strip(line.cols[2]) \in DOMAIN st.step_info
  /\ ~st.step_info[Strip(line.cols[2])].isInt

\* The length the string would have with the value of the line appended.
AppendedLen(st, line) ==
  StrLen(st.step_info[Strip(line.cols[2])]) + 1 + TextLen(Strip(line.cols[3]))

\* Every string value of step_info has fewer than 50000 characters.
StringsBelowLimit(si) ==
  \A key \in DOMAIN si : ~si[key].isInt => StrLen(si[key]) < CellLimit

\* An append that would reach the limit leaves the stored value unchanged.
AppendAtLimitUnchanged ==
  [][(ppc = "loop" /\ ln' = ln + 1 /\ AppendsTo(pst, bb_log.out[ln + 1])
       /\ AppendedLen(pst, bb_log.out[ln + 1]) >= CellLimit)
     => pst'.step_info = pst.step_info]_vars

\* C11: after any sequence of log lines every string value stored in
\* step_info has fewer than 50000 characters, and an append that would reach
\* the limit leaves the stored value unchanged.
C11_StringsBelowLimit ==
  [][/\ StringsBelowLimit(pst'.step_info)
     /\ (ppc = "loop" /\ ln' = ln + 1 /\ AppendsTo(pst, bb_log.out[ln + 1])
          /\ AppendedLen(pst, bb_log.out[ln + 1]) >= CellLimit)
        => pst'.step_info = pst.step_info]_vars

====
